---------------------------- MODULE Spec2Model ----------------------------
(***************************************************************************)
(* Model of code_compare.comparer.CodeComparer: the timing loop            *)
(* (_warmup, _time_single_snippet), the statistics (_detailed_stats,       *)
(* _confidence_interval) and the ranking done by compare_execution.        *)
(*                                                                         *)
(* Number representation.  A timing sample is an integer number of clock   *)
(* ticks.  Values derived from samples by exact library arithmetic         *)
(* (statistics.mean / median / variance work on exact fractions and round  *)
(* once) are kept as exact rationals [num, den] with den > 0.  The         *)
(* interpolation inside statistics.quantiles is plain float arithmetic,    *)
(* one rounding per operation; it is modelled with a binary floating-point *)
(* format of MantissaBits significant bits, round-half-to-even.  A         *)
(* standard deviation is carried by its square.                            *)
(***************************************************************************)
EXTENDS Integers, Sequences, FiniteSets, TLC

\* ----------------------------------------------------------------- bounds
MaxReps    == 2    \* num_repetitions ranges over 0..MaxReps
MaxNumber  == 2    \* num_executions_per_rep ranges over 0..MaxNumber
MaxWarmup  == 1    \* warmup_runs ranges over 0..MaxWarmup
MaxTick    == 1    \* per-execution duration of a repetition, in ticks
MaxCalls   == 2    \* compare_execution calls on one comparer
MaxLen     == 31   \* longest series handed to the statistics functions
MaxSample  == 2    \* largest sample in such a series
MaxMean    == 20   \* largest sample of a series handed to the ranking
MantissaBits == 4  \* precision of the modelled float format

\* -------------------------------------------------------------- constants
fixed_seed == 42
QuantileN  == 100
PercentileThreshold == 20

Faults == {"NameError", "ValueError"}

\* ------------------------------------------------------ exact rationals
R(n, d) == [num |-> n, den |-> d]
Zero    == R(0, 1)
None    == [none |-> TRUE]

RLt(a, b) == a.num * b.den < b.num * a.den
RLe(a, b) == a.num * b.den <= b.num * a.den

RECURSIVE Pow2(_)
Pow2(e) == IF e = 0 THEN 1 ELSE 2 * Pow2(e - 1)

\* round the rational n/d >= 0 to an integer, ties to even
RoundHalfEven(n, d) ==
    LET q == n \div d
        r == n % d
    IN  IF 2 * r > d THEN q + 1
        ELSE IF 2 * r < d THEN q
        ELSE IF q % 2 = 0 THEN q ELSE q + 1

\* round the rational n/d >= 0 to MantissaBits significant bits
RECURSIVE FRound(_, _)
FRound(n, d) ==
    IF n = 0 THEN Zero
    ELSE IF n >= Pow2(MantissaBits) * d
         THEN LET h == FRound(n, 2 * d) IN R(2 * h.num, h.den)
    ELSE IF n < Pow2(MantissaBits - 1) * d
         THEN LET h == FRound(2 * n, d) IN R(h.num, 2 * h.den)
    ELSE R(RoundHalfEven(n, d), 1)

FMul(a, b) == FRound(a.num * b.num, a.den * b.den)
FAdd(a, b) == FRound(a.num * b.den + b.num * a.den, a.den * b.den)
FDiv(a, b) == FRound(a.num * b.den, a.den * b.num)

\* ------------------------------------------------------ series helpers
RECURSIVE Sum(_)
Sum(s) == IF s = <<>> THEN 0 ELSE Head(s) + Sum(Tail(s))

RECURSIVE SumSq(_)
SumSq(s) == IF s = <<>> THEN 0 ELSE Head(s) * Head(s) + SumSq(Tail(s))

Sorted(s) == SortSeq(s, LAMBDA a, b : a < b)

SeqMin(s) == CHOOSE x \in {s[i] : i \in 1..Len(s)} :
                 \A j \in 1..Len(s) : x <= s[j]
SeqMax(s) == CHOOSE x \in {s[i] : i \in 1..Len(s)} :
                 \A j \in 1..Len(s) : x >= s[j]

\* statistics.mean: exact sum over the count
Mean(data) == R(Sum(data), Len(data))

\* statistics.variance (the square of statistics.stdev), sample variance
Variance(data) ==
    LET n == Len(data)
    IN  R(n * SumSq(data) - Sum(data) * Sum(data), n * (n - 1))

\* statistics.median: middle element, or the mean of the two middle ones
Median(data) ==
    LET s == Sorted(data)
        n == Len(data)
    IN  IF n % 2 = 1 THEN R(s[(n + 1) \div 2], 1)
        ELSE R(s[n \div 2] + s[n \div 2 + 1], 2)

\* statistics.quantiles(data, n=n), method 'exclusive': the n-1 cut points
Quantiles(data, n) ==
    LET s  == Sorted(data)
        ld == Len(data)
        m  == ld + 1
    IN  [i \in 1..(n - 1) |->
            LET j0    == (i * m) \div n
                j     == IF j0 < 1 THEN 1 ELSE IF j0 > ld - 1 THEN ld - 1 ELSE j0
                delta == i * m - j * n
            IN  FDiv(FAdd(FMul(R(s[j], 1), R(n - delta, 1)),
                          FMul(R(s[j + 1], 1), R(delta, 1))),
                     R(n, 1))]

\* Python truthiness of a percentile entry: None and 0.0 are both falsy
Truthy(x) == x # None /\ x.num # 0

\* ---------------------------------------------------- _detailed_stats
StatisticsError == "StatisticsError"

\* statistics.mean (and with it _detailed_stats) raises on an empty series
DetailedStatsRaises(data) == Len(data) = 0

DetailedStats(data) ==
    LET percentiles == IF Len(data) >= PercentileThreshold
                       THEN Quantiles(data, QuantileN)
                       ELSE [i \in 1..(QuantileN - 1) |-> None]
    IN  [mean          |-> Mean(data),
         stdev_sq      |-> IF Len(data) > 1 THEN Variance(data) ELSE Zero,
         median        |-> Median(data),
         percentile_5  |-> IF Truthy(percentiles[5]) THEN percentiles[5] ELSE None,
         percentile_95 |-> IF Truthy(percentiles[95]) THEN percentiles[95] ELSE None,
         min           |-> R(SeqMin(data), 1),
         max           |-> R(SeqMax(data), 1),
         count         |-> Len(data)]

\* ------------------------------------------------ _confidence_interval
\* a table whose large-sample value 1.96 starts at n = 30
TCriticalFrom30(n) ==
    IF n >= 30 THEN 196
    ELSE CASE n = 2 -> 1271 [] n = 3 -> 430 [] n = 4 -> 318 [] n = 5 -> 278
           [] n = 6 -> 257  [] n = 7 -> 245 [] n = 8 -> 236 [] n = 9 -> 231
           [] n = 10 -> 226 [] OTHER -> 200

\* the critical value t, times 100
TCritical100(n) ==
    IF n > 30 THEN 196
    ELSE CASE n = 2 -> 1271 [] n = 3 -> 430 [] n = 4 -> 318 [] n = 5 -> 278
           [] n = 6 -> 257  [] n = 7 -> 245 [] n = 8 -> 236 [] n = 9 -> 231
           [] n = 10 -> 226 [] OTHER -> 200

\* The interval (mean - margin, mean + margin) is carried as its centre and
\* the square of its half width; (0.0, 0.0) is centre 0, half width 0.
ConfidenceInterval(data) ==
    IF Len(data) < 2 THEN [mean |-> Zero, margin_sq |-> Zero]
    ELSE LET n   == Len(data)
             var == Variance(data)
             t   == TCritical100(n)
         IN  [mean      |-> Mean(data),
              margin_sq |-> R(t * t * var.num, 10000 * var.den * n)]

\* -------------------------------------------- compare_execution: ranking
Inf == [inf |-> TRUE]

RDiv(a, b) == R(a.num * b.den, a.den * b.num)

\* (1 - f / s) * 100
PercentOf(f, s) == R(100 * (s.num * f.den - f.num * s.den), s.num * f.den)

\* Ranking with the comparison  stats1["mean"] <= stats2["mean"]
RankingTieFirst(s1, s2) ==
    IF RLe(s1.mean, s2.mean)
    THEN [faster  |-> "Snippet 1",
          slower  |-> "Snippet 2",
          ratio   |-> IF s1.mean.num > 0 THEN RDiv(s2.mean, s1.mean) ELSE Inf,
          percent |-> IF s2.mean.num > 0 THEN PercentOf(s1.mean, s2.mean) ELSE Zero]
    ELSE [faster  |-> "Snippet 2",
          slower  |-> "Snippet 1",
          ratio   |-> IF s2.mean.num > 0 THEN RDiv(s1.mean, s2.mean) ELSE Inf,
          percent |-> IF s1.mean.num > 0 THEN PercentOf(s2.mean, s1.mean) ELSE Zero]

\* Ranking with the ratio taken as faster mean / slower mean
RankingInverseRatio(s1, s2) ==
    IF RLt(s1.mean, s2.mean)
    THEN [faster  |-> "Snippet 1",
          slower  |-> "Snippet 2",
          ratio   |-> IF s1.mean.num > 0 THEN RDiv(s1.mean, s2.mean) ELSE Inf,
          percent |-> IF s2.mean.num > 0 THEN PercentOf(s1.mean, s2.mean) ELSE Zero]
    ELSE [faster  |-> "Snippet 2",
          slower  |-> "Snippet 1",
          ratio   |-> IF s2.mean.num > 0 THEN RDiv(s2.mean, s1.mean) ELSE Inf,
          percent |-> IF s1.mean.num > 0 THEN PercentOf(s2.mean, s1.mean) ELSE Zero]

\* lines 353-362 of compare_execution
Ranking(s1, s2) ==
    IF RLt(s1.mean, s2.mean)
    THEN [faster  |-> "Snippet 1",
          slower  |-> "Snippet 2",
          ratio   |-> IF s1.mean.num > 0 THEN RDiv(s2.mean, s1.mean) ELSE Inf,
          percent |-> IF s2.mean.num > 0 THEN PercentOf(s1.mean, s2.mean) ELSE Zero]
    ELSE [faster  |-> "Snippet 2",
          slower  |-> "Snippet 1",
          ratio   |-> IF s2.mean.num > 0 THEN RDiv(s1.mean, s2.mean) ELSE Inf,
          percent |-> IF s1.mean.num > 0 THEN PercentOf(s2.mean, s1.mean) ELSE Zero]

\* f"{x:.2f}": the value in hundredths, rounded to nearest
Fmt2(x) == [hundredths |-> RoundHalfEven(100 * x.num, x.den)]

Text(s) == [text |-> s]

\* the summary returned to the caller
RelPerf(v) ==
    IF v.ratio = Inf
    THEN [times |-> Text("inf"), percentage |-> Text("N/A"),
          faster |-> v.faster, slower |-> v.slower]
    ELSE [times |-> Fmt2(v.ratio), percentage |-> Fmt2(v.percent),
          faster |-> v.faster, slower |-> v.slower]

\* export_data["relative_performance"]
ExportRelativePerformance(v) ==
    [faster |-> v.faster, slower |-> v.slower,
     ratio |-> v.ratio, percent_faster |-> v.percent]

\* ------------------------------------------- _time_single_snippet helpers
\* elapsed = (end - start) / number if number > 0 else 0
Elapsed(start, end, number) ==
    IF number > 0 THEN (end - start) \div number ELSE 0

\* "1" in snippet_name selects self.measurements_1
StoresInFirst(snippet) == snippet = 1

SnippetName(snippet) == IF snippet = 1 THEN "Snippet 1" ELSE "Snippet 2"

\* ------------------------------------------------------------------ state
VARIABLES
    pc,              \* position inside compare_execution / _time_single_snippet
    call,            \* number of compare_execution calls made on this comparer
    par,             \* arguments of the current call
    cur,             \* snippet being timed: 1 or 2
    times,           \* local list of _time_single_snippet
    rep,             \* loop index of the repetition loop
    k,               \* executions done inside the current repetition
    wdone,           \* warm-up runs done
    local_setup,     \* seed of the local_setup string built for this repetition
    measurements_1,  \* self.measurements_1
    measurements_2,  \* self.measurements_2
    stamp,           \* call in which each stored series was measured
    ret,             \* what _time_single_snippet returned for each snippet
    gc_enabled,      \* gc.isenabled()
    gc_saved,        \* gc_disabled's saved flag
    redirected,      \* sys.stdout / sys.stderr point at devnull
    reports,         \* error reports printed by the except handler, this call
    setup_log,       \* executions of the setup code, this call
    execs,           \* executions of each snippet, this call
    faulted,         \* faults raised by a snippet, this call
    stats1, stats2,  \* locals of compare_execution
    ci1, ci2,
    verdict,         \* faster, slower, ratio, percent
    export_rp,       \* export_data["relative_performance"]
    outcome,         \* how the call ended
    code,            \* what self.code_1 / self.code_2 refer to
    gc_at_start,     \* gc.isenabled() when the comparer was constructed
    cb_log           \* calls of on_repeat_end that returned, this call

vars == <<pc, call, par, cur, times, rep, k, wdone, local_setup,
          measurements_1, measurements_2, stamp, ret, gc_enabled, gc_saved,
          redirected, reports, setup_log, execs, faulted, stats1, stats2,
          ci1, ci2, verdict, export_rp, outcome, code, gc_at_start, cb_log>>

timerVars  == <<times, rep, k, wdone, local_setup>>
storeVars  == <<measurements_1, measurements_2, stamp>>
scopeVars  == <<gc_enabled, gc_saved, redirected>>
resultVars == <<stats1, stats2, ci1, ci2, verdict, export_rp>>
fixedVars  == <<code, gc_at_start>>

Snippets  == {1, 2}
NoReturn  == [kind |-> "none"]
NoneNone  == [kind |-> "None, None"]
NoOutcome == [kind |-> "none"]
NoPar     == [repeat |-> 0, number |-> 0, warmup_runs |-> 0, cb |-> FALSE]

\* a snippet refers only to names its setup binds (as DEFAULT_CODE_1 and
\* DEFAULT_CODE_2 do with the imports of DEFAULT_SETUP_CODE), or it is any
\* other code
CodeKinds == {"setup_names", "other"}

\* the namespace the snippet is executed in. Warm-up: exec(setup_code, {}, {})
\* then exec(code, {}, {}), two pairs of fresh dicts. Timed loop: only
\* exec(code_to_time, {}, {}), the setup is not executed at all. Either way
\* the snippet's globals and locals hold nothing the setup bound.
SetupNamesVisible(phase) ==
    CASE phase = "warmup" -> FALSE
      [] phase = "timed"  -> FALSE

\* the execution may complete
MayRun(snippet, phase) ==
    code[snippet] = "other" \/ SetupNamesVisible(phase)

\* the execution may raise f: a snippet of setup names raises NameError where
\* they are not bound and nothing otherwise, any other code may raise anything
MayRaise(snippet, phase, f) ==
    IF code[snippet] = "setup_names"
    THEN ~SetupNamesVisible(phase) /\ f = "NameError"
    ELSE TRUE

InitCommon ==
    /\ call = 0
    /\ par = NoPar
    /\ cur = 0
    /\ times = <<>>
    /\ rep = 0
    /\ k = 0
    /\ wdone = 0
    /\ local_setup = None
    /\ stamp = [s \in Snippets |-> 0]
    /\ ret = [s \in Snippets |-> NoReturn]
    /\ gc_saved = FALSE
    /\ redirected = FALSE
    /\ reports = {}
    /\ setup_log = <<>>
    /\ execs = [s \in Snippets |-> 0]
    /\ faulted = {}
    /\ ci2 = None
    /\ verdict = None
    /\ export_rp = None
    /\ outcome = NoOutcome
    /\ cb_log = [s \in Snippets |-> <<>>]

\* CodeComparer.__init__
Init ==
    /\ InitCommon
    /\ pc = "idle"
    /\ code \in [Snippets -> CodeKinds]
    /\ measurements_1 = <<>>
    /\ measurements_2 = <<>>
    /\ gc_enabled \in BOOLEAN
    /\ gc_at_start = gc_enabled
    /\ stats1 = None
    /\ stats2 = None
    /\ ci1 = None

\* --------------------------------------------------------------- actions
\* compare_execution is called; it enters _time_single_snippet("Snippet 1")
CompareExecution(r, n, w, cb) ==
    /\ pc \in {"idle", "done"}
    /\ call < MaxCalls
    /\ call' = call + 1
    /\ par' = [repeat |-> r, number |-> n, warmup_runs |-> w, cb |-> cb]
    /\ cur' = 1
    /\ times' = <<>>
    /\ rep' = 0
    /\ k' = 0
    /\ wdone' = 0
    /\ local_setup' = None
    /\ ret' = [s \in Snippets |-> NoReturn]
    /\ reports' = {}
    /\ setup_log' = <<>>
    /\ execs' = [s \in Snippets |-> 0]
    /\ faulted' = {}
    /\ stats1' = None
    /\ stats2' = None
    /\ ci1' = None
    /\ ci2' = None
    /\ verdict' = None
    /\ export_rp' = None
    /\ outcome' = NoOutcome
    /\ cb_log' = [s \in Snippets |-> <<>>]
    /\ pc' = "warmup"
    /\ UNCHANGED <<fixedVars, storeVars, scopeVars>>

\* top of one pass of _warmup's loop: suppress_output is entered
WarmupBegin ==
    /\ pc = "warmup"
    /\ wdone < par.warmup_runs
    /\ redirected' = TRUE
    /\ pc' = "wexec"
    /\ UNCHANGED <<fixedVars, cb_log, call, par, cur, timerVars, storeVars, ret,
                   gc_enabled, gc_saved, reports, setup_log, execs, faulted,
                   resultVars, outcome>>

\* the setup and the snippet run in the warm-up pass, suppress_output is left
WarmupRun ==
    /\ pc = "wexec"
    /\ MayRun(cur, "warmup")
    /\ redirected' = FALSE
    /\ pc' = "warmup"
    /\ setup_log' = Append(setup_log,
                           [snippet |-> cur, phase |-> "warmup", seed |-> fixed_seed])
    /\ execs' = [execs EXCEPT ![cur] = @ + 1]
    /\ wdone' = wdone + 1
    /\ UNCHANGED <<fixedVars, cb_log, call, par, cur, times, rep, k, local_setup,
                   storeVars, ret, gc_enabled, gc_saved, reports, faulted,
                   resultVars, outcome>>

\* the snippet raises in a warm-up pass: suppress_output unwinds; _warmup is
\* called outside the try, so the exception leaves _time_single_snippet and
\* compare_execution
WarmupFault(f) ==
    /\ pc = "wexec"
    /\ MayRaise(cur, "warmup", f)
    /\ redirected' = FALSE
    /\ setup_log' = Append(setup_log,
                           [snippet |-> cur, phase |-> "warmup", seed |-> fixed_seed])
    /\ execs' = [execs EXCEPT ![cur] = @ + 1]
    /\ faulted' = faulted \cup {[snippet |-> cur, msg |-> f, phase |-> "warmup"]}
    /\ outcome' = [kind |-> "exception", msg |-> f]
    /\ pc' = "done"
    /\ UNCHANGED <<fixedVars, cb_log, call, par, cur, timerVars, storeVars, ret,
                   gc_enabled, gc_saved, reports, resultVars>>

\* the warm-up is over: enter the try block and gc_disabled()
EnterTimed ==
    /\ pc = "warmup"
    /\ wdone = par.warmup_runs
    /\ gc_saved' = gc_enabled
    /\ gc_enabled' = FALSE
    /\ rep' = 0
    /\ pc' = "rep"
    /\ UNCHANGED <<fixedVars, cb_log, call, par, cur, times, k, wdone, local_setup, storeVars, ret,
                   redirected, reports, setup_log, execs, faulted, resultVars,
                   outcome>>

\* top of one repetition: local_setup is built (and never executed),
\* _reset_state does nothing, the clock is read, suppress_output is entered
RepBegin ==
    /\ pc = "rep"
    /\ rep < par.repeat
    /\ local_setup' = [seed |-> fixed_seed + rep]
    /\ redirected' = TRUE
    /\ k' = 0
    /\ pc' = "exec"
    /\ UNCHANGED <<fixedVars, cb_log, call, par, cur, times, rep, wdone, storeVars, ret, gc_enabled,
                   gc_saved, reports, setup_log, execs, faulted, resultVars,
                   outcome>>

\* one timed exec(code_to_time, {}, {})
ExecSnippet ==
    /\ pc = "exec"
    /\ k < par.number
    /\ MayRun(cur, "timed")
    /\ execs' = [execs EXCEPT ![cur] = @ + 1]
    /\ k' = k + 1
    /\ UNCHANGED <<fixedVars, cb_log, pc, call, par, cur, times, rep, wdone, local_setup, storeVars,
                   ret, scopeVars, reports, setup_log, faulted, resultVars,
                   outcome>>

\* a finally clause that enables the collector whatever it was at entry
GcAlwaysEnabled == gc_saved \/ TRUE

\* gc_disabled's finally clause
GcRestored == IF gc_saved THEN TRUE ELSE gc_enabled

\* after _time_single_snippet returns: snippet 2 is timed next, then the statistics
Continue ==
    IF cur = 1
    THEN /\ cur' = 2
         /\ times' = <<>>
         /\ rep' = 0
         /\ k' = 0
         /\ wdone' = 0
         /\ local_setup' = None
         /\ pc' = "warmup"
    ELSE /\ pc' = "stats"
         /\ UNCHANGED <<cur, times, rep, k, wdone, local_setup>>

\* the except handler of _time_single_snippet: report, return None, None
Handled(msg) ==
    /\ reports' = reports \cup {[snippet |-> SnippetName(cur), msg |-> msg]}
    /\ ret' = [ret EXCEPT ![cur] = NoneNone]

\* a timed execution raises: both context managers unwind, the handler runs
ExecFault(f) ==
    /\ pc = "exec"
    /\ k < par.number
    /\ MayRaise(cur, "timed", f)
    /\ execs' = [execs EXCEPT ![cur] = @ + 1]
    /\ faulted' = faulted \cup {[snippet |-> cur, msg |-> f, phase |-> "timed"]}
    /\ redirected' = FALSE
    /\ gc_enabled' = GcRestored
    /\ Handled(f)
    /\ Continue
    /\ UNCHANGED <<fixedVars, cb_log, call, par, storeVars, gc_saved, setup_log, resultVars, outcome>>

\* end of one repetition: suppress_output is left, the clock is read, the
\* sample is appended and the callback, if any, returns
RepEnd(d) ==
    /\ pc = "exec"
    /\ k = par.number
    /\ redirected' = FALSE
    /\ LET start == 0
           end   == IF par.number > 0 THEN start + par.number * d ELSE start + d
           elapsed == Elapsed(start, end, par.number)
       IN  /\ times' = Append(times, elapsed)
           /\ cb_log' = IF par.cb
                        THEN [cb_log EXCEPT ![cur] = Append(@, <<rep, elapsed>>)]
                        ELSE cb_log
    /\ rep' = rep + 1
    /\ pc' = "rep"
    /\ UNCHANGED <<fixedVars, call, par, cur, k, wdone, local_setup, storeVars, ret,
                   gc_enabled, gc_saved, reports, setup_log, execs, faulted,
                   resultVars, outcome>>

\* end of one repetition where on_repeat_end raises: the sample was appended
\* to the local list, which is dropped as the handler returns None, None
RepEndCallbackFault(f) ==
    /\ pc = "exec"
    /\ k = par.number
    /\ par.cb
    /\ redirected' = FALSE
    /\ gc_enabled' = GcRestored
    /\ Handled(f)
    /\ Continue
    /\ UNCHANGED <<fixedVars, cb_log, call, par, storeVars, gc_saved, setup_log, execs, faulted,
                   resultVars, outcome>>

\* the loop is over: gc_disabled is left, the series is stored, and
\* statistics.mean(times) either gives the return value or raises into the handler
TimingDone ==
    /\ pc = "rep"
    /\ rep = par.repeat
    /\ gc_enabled' = GcRestored
    /\ IF StoresInFirst(cur)
       THEN measurements_1' = times /\ UNCHANGED measurements_2
       ELSE measurements_2' = times /\ UNCHANGED measurements_1
    /\ stamp' = [stamp EXCEPT ![IF StoresInFirst(cur) THEN 1 ELSE 2] = call]
    /\ IF times = <<>>
       THEN Handled(StatisticsError)
       ELSE /\ ret' = [ret EXCEPT ![cur] =
                          [kind |-> "mean, stdev", mean |-> Mean(times),
                           stdev_sq |-> IF Len(times) > 1 THEN Variance(times) ELSE Zero]]
            /\ UNCHANGED reports
    /\ Continue
    /\ UNCHANGED <<fixedVars, cb_log, call, par, gc_saved, redirected, setup_log, execs, faulted,
                   resultVars, outcome>>

\* stats1, stats2, ci1, ci2 from the stored series; _detailed_stats raises on an
\* empty one and the exception leaves compare_execution
ComputeStats ==
    /\ pc = "stats"
    /\ IF DetailedStatsRaises(measurements_1)
       THEN /\ outcome' = [kind |-> "exception", msg |-> StatisticsError]
            /\ pc' = "done"
            /\ UNCHANGED <<stats1, stats2, ci1, ci2>>
       ELSE IF DetailedStatsRaises(measurements_2)
       THEN /\ stats1' = DetailedStats(measurements_1)
            /\ outcome' = [kind |-> "exception", msg |-> StatisticsError]
            /\ pc' = "done"
            /\ UNCHANGED <<stats2, ci1, ci2>>
       ELSE /\ stats1' = DetailedStats(measurements_1)
            /\ stats2' = DetailedStats(measurements_2)
            /\ ci1' = ConfidenceInterval(measurements_1)
            /\ ci2' = ConfidenceInterval(measurements_2)
            /\ pc' = "verdict"
            /\ UNCHANGED outcome
    /\ UNCHANGED <<fixedVars, cb_log, call, par, cur, timerVars, storeVars, ret, scopeVars, reports,
                   setup_log, execs, faulted, verdict, export_rp>>

\* the ranking, the export record and the returned summary
Report ==
    /\ pc = "verdict"
    /\ verdict' = Ranking(stats1, stats2)
    /\ export_rp' = ExportRelativePerformance(verdict')
    /\ outcome' = [kind |-> "result", relative_performance |-> RelPerf(verdict')]
    /\ pc' = "done"
    /\ UNCHANGED <<fixedVars, cb_log, call, par, cur, timerVars, storeVars, ret, scopeVars, reports,
                   setup_log, execs, faulted, stats1, stats2, ci1, ci2>>

Next ==
    \/ \E r \in 0..MaxReps, n \in 0..MaxNumber, w \in 0..MaxWarmup, cb \in BOOLEAN :
           CompareExecution(r, n, w, cb)
    \/ WarmupBegin
    \/ WarmupRun
    \/ \E f \in Faults : WarmupFault(f)
    \/ EnterTimed
    \/ RepBegin
    \/ ExecSnippet
    \/ \E f \in Faults : ExecFault(f)
    \/ \E d \in 0..MaxTick : RepEnd(d)
    \/ \E f \in Faults : RepEndCallbackFault(f)
    \/ TimingDone
    \/ ComputeStats
    \/ Report

Spec == Init /\ [][Next]_vars

\* ------------------------------------------ the two timing runs of one call
\* a first compare_execution has just entered _time_single_snippet("Snippet 1")
InitTimer ==
    \E r \in 0..MaxReps, n \in 0..MaxNumber, w \in 0..MaxWarmup, cb \in BOOLEAN :
        /\ pc = "warmup"
        /\ call = 1
        /\ par = [repeat |-> r, number |-> n, warmup_runs |-> w, cb |-> cb]
        /\ cur = 1
        /\ times = <<>>
        /\ rep = 0
        /\ k = 0
        /\ wdone = 0
        /\ local_setup = None
        /\ measurements_1 = <<>>
        /\ measurements_2 = <<>>
        /\ stamp = [s \in Snippets |-> 0]
        /\ ret = [s \in Snippets |-> NoReturn]
        /\ gc_enabled \in BOOLEAN
        /\ gc_at_start = gc_enabled
        /\ gc_saved = FALSE
        /\ redirected = FALSE
        /\ code \in [Snippets -> CodeKinds]
        /\ reports = {}
        /\ setup_log = <<>>
        /\ execs = [s \in Snippets |-> 0]
        /\ faulted = {}
        /\ cb_log = [s \in Snippets |-> <<>>]
        /\ stats1 = None
        /\ stats2 = None
        /\ ci1 = None
        /\ ci2 = None
        /\ verdict = None
        /\ export_rp = None
        /\ outcome = NoOutcome

\* _time_single_snippet for Snippet 1 and then for Snippet 2
NextTimer ==
    \/ WarmupBegin
    \/ WarmupRun
    \/ \E f \in Faults : WarmupFault(f)
    \/ EnterTimed
    \/ RepBegin
    \/ ExecSnippet
    \/ \E f \in Faults : ExecFault(f)
    \/ \E d \in 0..MaxTick : RepEnd(d)
    \/ \E f \in Faults : RepEndCallbackFault(f)
    \/ TimingDone

SpecTimer == InitTimer /\ [][NextTimer]_vars

Raised(e) == [raised |-> e]

Repeat(v, n) == [i \in 1..n |-> v]

Reverse(s) == [i \in 1..Len(s) |-> s[Len(s) + 1 - i]]

\* the ascending series of at most room samples from v..MaxSample
RECURSIVE Ascending(_, _)
Ascending(v, room) ==
    IF v > MaxSample THEN {<<>>}
    ELSE UNION {{Repeat(v, c) \o rest : rest \in Ascending(v + 1, room - c)} :
                   c \in 0..room}

\* every multiset of at most MaxLen samples from 0..MaxSample, in ascending
\* and in descending repetition order
SeriesInputs ==
    LET asc == Ascending(0, MaxLen)
    IN  asc \cup {Reverse(s) : s \in asc}

InitStats ==
    /\ InitCommon
    /\ pc = "fn"
    /\ measurements_1 \in SeriesInputs
    /\ measurements_2 = <<>>
    /\ gc_enabled = TRUE
    /\ gc_at_start = TRUE
    /\ code = [s \in Snippets |-> "other"]
    /\ stats1 = None
    /\ stats2 = None
    /\ ci1 = None

\* _detailed_stats(self.measurements_1)
Describe ==
    /\ pc = "fn"
    /\ stats1 = None
    /\ stats1' = IF DetailedStatsRaises(measurements_1)
                 THEN Raised(StatisticsError)
                 ELSE DetailedStats(measurements_1)
    /\ UNCHANGED <<fixedVars, cb_log, pc, call, par, cur, timerVars, storeVars, ret, scopeVars,
                   reports, setup_log, execs, faulted, stats2, ci1, ci2, verdict,
                   export_rp, outcome>>

\* _confidence_interval(self.measurements_1)
Interval ==
    /\ pc = "fn"
    /\ ci1 = None
    /\ ci1' = ConfidenceInterval(measurements_1)
    /\ UNCHANGED <<fixedVars, cb_log, pc, call, par, cur, timerVars, storeVars, ret, scopeVars,
                   reports, setup_log, execs, faulted, stats1, stats2, ci2,
                   verdict, export_rp, outcome>>

NextStats == Describe \/ Interval

SpecStats == InitStats /\ [][NextStats]_vars

\* ---------------------------------------------------- the ranking alone
\* series of n samples with mean a or a + 1/2
VerdictSeries(n) ==
    IF n = 1 THEN {<<a>> : a \in 0..MaxMean}
    ELSE {<<a, a>> : a \in 0..MaxMean} \cup {<<a, a + 1>> : a \in 0..(MaxMean - 1)}

\* compare_execution of a first call after both timing runs succeeded and
\* lines 348-351 computed the statistics of the two series
InitVerdict ==
    \E n \in 1..2 :
        /\ pc = "verdict"
        /\ call = 1
        /\ par = [repeat |-> n, number |-> 1, warmup_runs |-> 0, cb |-> FALSE]
        /\ cur = 2
        /\ measurements_1 \in VerdictSeries(n)
        /\ measurements_2 \in VerdictSeries(n)
        /\ times = measurements_2
        /\ rep = n
        /\ k = 1
        /\ wdone = 0
        /\ local_setup = [seed |-> fixed_seed + n - 1]
        /\ stamp = [s \in Snippets |-> 1]
        /\ ret = [s \in Snippets |->
                     LET m == IF s = 1 THEN measurements_1 ELSE measurements_2
                     IN  [kind |-> "mean, stdev", mean |-> Mean(m),
                          stdev_sq |-> IF Len(m) > 1 THEN Variance(m) ELSE Zero]]
        /\ gc_enabled = TRUE
        /\ gc_at_start = TRUE
        /\ code = [s \in Snippets |-> "other"]
        /\ cb_log = [s \in Snippets |-> <<>>]
        /\ gc_saved = TRUE
        /\ redirected = FALSE
        /\ reports = {}
        /\ setup_log = <<>>
        /\ execs = [s \in Snippets |-> n]
        /\ faulted = {}
        /\ stats1 = DetailedStats(measurements_1)
        /\ stats2 = DetailedStats(measurements_2)
        /\ ci1 = ConfidenceInterval(measurements_1)
        /\ ci2 = ConfidenceInterval(measurements_2)
        /\ verdict = None
        /\ export_rp = None
        /\ outcome = NoOutcome

NextVerdict == Report

SpecVerdict == InitVerdict /\ [][NextVerdict]_vars

\* ================================================================ claims
Finished     == pc = "done"
Returned     == pc = "done" /\ outcome.kind = "result"
TimingFailed(s) == ret[s] = NoneNone
TimingOk(s)     == ret[s] # NoneNone /\ ret[s] # NoReturn

\* the seeds the setup code saw in snippet s's executions of the given phase
SeedsSeen(s, phase) ==
    LET sel == SelectSeq(setup_log, LAMBDA e : e.snippet = s /\ e.phase = phase)
    IN  [i \in 1..Len(sel) |-> sel[i].seed]

\* C1: when a snippet raised in warm-up or in a timed execution, the call
\* ends in a failure (no result is returned) that was reported with the name
\* of the faulting snippet and the fault's message, and no statistics and no
\* verdict were produced for either snippet.
C1_FaultEndsInIdentifiedFailure ==
    (Finished /\ faulted # {}) =>
        /\ outcome.kind # "result"
        /\ \A x \in faulted :
               [snippet |-> SnippetName(x.snippet), msg |-> x.msg] \in reports
        /\ stats1 = None /\ stats2 = None /\ ci1 = None /\ ci2 = None
        /\ verdict = None

\* C2: once the timing run of snippet 1 has failed on a fault of the
\* snippet, snippet 2 is neither warmed up nor executed in that call, and no
\* statistics or verdict is computed afterwards.
C2_FailureAbortsComparison ==
    (TimingFailed(1) /\ \E x \in faulted : x.snippet = 1 /\ x.phase = "timed") =>
        /\ execs[2] = 0
        /\ SeedsSeen(2, "warmup") = <<>>
        /\ pc \notin {"stats", "verdict"}
        /\ stats1 = None /\ stats2 = None /\ verdict = None

\* C3: the statistics, intervals and verdict of a call are computed only
\* from series measured during that same call; a series stored by an earlier
\* call is never consumed.
C3_StatsFromThisCallOnly ==
    Returned => (stamp[1] = call /\ stamp[2] = call)

\* C4: the verdict names Snippet 1 the faster one exactly when its mean is
\* smaller than Snippet 2's and names Snippet 2 the faster one otherwise; on
\* a tie of positive means it is faster = Snippet 2, slower = Snippet 1,
\* ratio = 1.0, percent = 0.0.
C4_FasterIffSmallerMean ==
    Returned =>
        LET lt == stats1.mean.num * stats2.mean.den < stats2.mean.num * stats1.mean.den
            eq == stats1.mean.num * stats2.mean.den = stats2.mean.num * stats1.mean.den
        IN  /\ lt => (verdict.faster = "Snippet 1" /\ verdict.slower = "Snippet 2")
            /\ ~lt => (verdict.faster = "Snippet 2" /\ verdict.slower = "Snippet 1")
            /\ (eq /\ stats1.mean.num > 0) =>
                   /\ verdict.ratio # Inf
                   /\ verdict.ratio.num = verdict.ratio.den
                   /\ verdict.percent.num = 0

C4_Witness ==
    /\ Returned
    /\ stats1.mean = R(5, 1)
    /\ stats2.mean = R(5, 1)
    /\ verdict.faster = "Snippet 2"
    /\ verdict.slower = "Snippet 1"

\* the smaller and the larger of the two means, as numerator / denominator
FasterMean ==
    IF stats1.mean.num * stats2.mean.den <= stats2.mean.num * stats1.mean.den
    THEN stats1.mean ELSE stats2.mean
SlowerMean ==
    IF stats1.mean.num * stats2.mean.den <= stats2.mean.num * stats1.mean.den
    THEN stats2.mean ELSE stats1.mean

\* C5: the ratio is slowerMean / fasterMean and at least 1, or +infinity when
\* fasterMean is 0 (also when both are 0); percent is
\* (1 - fasterMean / slowerMean) * 100, or 0 when slowerMean is 0, and lies in
\* [0, 100]; means 10 and 20 give faster = Snippet 1, ratio 2.0, percent 50.0.
C5_RatioAndPercent ==
    Returned =>
        LET f == FasterMean
            s == SlowerMean
            r == verdict.ratio
            p == verdict.percent
        IN  /\ (f.num = 0) <=> (r = Inf)
            /\ f.num > 0 =>
                   /\ r.num * (f.num * s.den) = (s.num * f.den) * r.den
                   /\ r.num >= r.den
            /\ s.num = 0 => p.num = 0
            /\ s.num > 0 =>
                   p.num * (s.num * f.den)
                       = 100 * (s.num * f.den - f.num * s.den) * p.den
            /\ p.num >= 0
            /\ p.num <= 100 * p.den
            /\ (stats1.mean = R(10, 1) /\ stats2.mean = R(20, 1)) =>
                   /\ verdict.faster = "Snippet 1"
                   /\ r.num = 2 * r.den
                   /\ p.num = 50 * p.den

C5_Witness ==
    /\ Returned
    /\ stats1.mean = R(10, 1)
    /\ stats2.mean = R(20, 1)
    /\ verdict.ratio = R(20, 10)

\* C6: when the faster mean is 0 and the slower mean is positive, the ratio
\* is +infinity and the percentage is carried as unavailable (N/A), not as a
\* number, both in the returned summary and in the exported record.
C6_ZeroMeanPercentUnavailable ==
    (Returned /\ FasterMean.num = 0 /\ SlowerMean.num > 0) =>
        /\ verdict.ratio = Inf
        /\ outcome.relative_performance.times = Text("inf")
        /\ outcome.relative_performance.percentage = Text("N/A")
        /\ export_rp.ratio = Inf
        /\ export_rp.percent_faster \in {None, Text("N/A")}

\* C7: the statistics of a non-empty series carry percentile_5 and
\* percentile_95 as absent exactly when the series has fewer than 20 samples.
C7_PercentilesAbsentIffShort ==
    (pc = "fn" /\ stats1 # None /\ stats1 # Raised(StatisticsError)) =>
        /\ (stats1.percentile_5 = None) <=> (stats1.count < 20)
        /\ (stats1.percentile_95 = None) <=> (stats1.count < 20)

\* C8: on a series of fewer than 2 samples neither function raises; the
\* standard deviation is 0 and the interval is (0, 0).
C8_DegenerateSeriesNoFault ==
    (pc = "fn" /\ Len(measurements_1) < 2) =>
        /\ stats1 # None =>
               (stats1 # Raised(StatisticsError) /\ stats1.stdev_sq.num = 0)
        /\ ci1 # None => (ci1.mean.num = 0 /\ ci1.margin_sq.num = 0)

\* C9: for a series of at least 20 samples whose two percentiles are both
\* available, min <= percentile_5 <= median <= percentile_95 <= max.
C9_PercentileOrdering ==
    (/\ pc = "fn" /\ stats1 # None /\ stats1 # Raised(StatisticsError)
     /\ stats1.count >= 20
     /\ stats1.percentile_5 # None /\ stats1.percentile_95 # None) =>
        /\ RLe(stats1.min, stats1.percentile_5)
        /\ RLe(stats1.percentile_5, stats1.median)
        /\ RLe(stats1.median, stats1.percentile_95)
        /\ RLe(stats1.percentile_95, stats1.max)

\* C10: in a timing run that completed, with at least one execution per
\* repetition, the setup code ran once per timed repetition and saw the seeds
\* fixed_seed, fixed_seed + 1, ..., fixed_seed + repetitions - 1 in that order.
C10_SetupSeedsPerRepetition ==
    \A s \in Snippets :
        (TimingOk(s) /\ par.number >= 1) =>
            SeedsSeen(s, "timed") = [i \in 1..par.repeat |-> fixed_seed + i - 1]

\* C11: the collector flag and the output streams around a timing run. Outside
\* the timed loop (before a run is entered and after it is left by normal
\* completion, by a fault raised in warm-up, in a timed execution or by the
\* progress callback) the flag has the value it had at entry, enabled or
\* disabled, and the streams are the ones at entry; while a timed repetition
\* executes the collector is disabled and the streams are redirected.
C11_GcAndStreamsRestored ==
    /\ pc = "exec" => (~gc_enabled /\ redirected)
    /\ pc \notin {"wexec", "rep", "exec"} =>
           (gc_enabled = gc_at_start /\ ~redirected)

\* both runs were left, one through the except handler after a fault in a
\* timed execution and one normally, with the collector enabled at entry
C11_Witness ==
    /\ pc = "stats"
    /\ gc_at_start /\ gc_enabled /\ ~redirected
    /\ TimingFailed(1) /\ (\E x \in faulted : x.snippet = 1 /\ x.phase = "timed")
    /\ TimingOk(2)

\* C12: for a series of n >= 2 samples the interval is centred on the mean of
\* the series and its half width is t(n) * stdev / sqrt(n) >= 0, with t(n) the
\* table value for n in 2..10, 2.0 for n in 11..30 and 1.96 for n > 30; so
\* lower <= mean <= upper. (Half width squared: t(n)^2 * variance / n.)
C12_IntervalAroundMean ==
    (pc = "fn" /\ ci1 # None /\ Len(measurements_1) >= 2) =>
        LET n     == Len(measurements_1)
            table == <<1271, 430, 318, 278, 257, 245, 236, 231, 226>>
            t100  == IF n <= 10 THEN table[n - 1]
                     ELSE IF n <= 30 THEN 200 ELSE 196
            v     == Variance(measurements_1)
        IN  /\ ci1.mean = R(Sum(measurements_1), n)
            /\ ci1.margin_sq = R(t100 * t100 * v.num, 10000 * v.den * n)
            /\ ci1.margin_sq.num >= 0 /\ ci1.margin_sq.den > 0

\* the interval of a series of 31 samples that are not all equal
C12_Witness ==
    /\ pc = "fn" /\ ci1 # None
    /\ Len(measurements_1) = 31
    /\ ci1.margin_sq.num > 0

\* C13: a timing run of a snippet that raises nothing, with a callback that
\* raises nothing, for any repetitions, executions per repetition and warm-up
\* runs >= 0: the run succeeds; there were exactly warmup_runs warm-up
\* executions; the stored series has exactly `repetitions` samples, each >= 0
\* and exactly 0 when executions per repetition is 0; and the callback was
\* invoked once per repetition, in increasing order, with (i, elapsed_i).
C13_TimingRunSamples ==
    \A s \in Snippets :
        (/\ ret[s] # NoReturn
         /\ ~\E x \in faulted : x.snippet = s
         /\ ~\E r \in reports : r.snippet = SnippetName(s) /\ r.msg \in Faults) =>
            LET m == IF StoresInFirst(s) THEN measurements_1 ELSE measurements_2
            IN  /\ TimingOk(s)
                /\ Len(SeedsSeen(s, "warmup")) = par.warmup_runs
                /\ Len(m) = par.repeat
                /\ \A i \in 1..Len(m) : m[i] >= 0 /\ (par.number = 0 => m[i] = 0)
                /\ par.cb => cb_log[s] = [i \in 1..par.repeat |-> <<i - 1, m[i]>>]

\* C14: a snippet that refers only to names bound by the setup code never
\* raises, neither in a warm-up execution nor in a timed one.
C14_SetupNamesVisible ==
    \A x \in faulted : code[x.snippet] # "setup_names"
=============================================================================
